---- MODULE Spec2Model ----
(***************************************************************************)
(* Bed-occupancy forecasting and decision engine of Cih_BedPredict:        *)
(* backend/app/routers/predictions.py (admin endpoints) and                *)
(* backend/app/routers/public.py (patient endpoints).                      *)
(*                                                                         *)
(* Python values.  A number is the record [n, d] standing for the rational *)
(* n/d (d > 0); Python's None is the record None; a raised exception is    *)
(* the record [exc |-> name]; a returned list is [ret |-> sequence].       *)
(* Floats are modelled by exact rationals; the two roundings the code      *)
(* applies, round(x) and round(x, 1), round half to even as Python does.   *)
(*                                                                         *)
(* State.  db is the storage (hospitals in query order, each with its      *)
(* records), req the request made, resp the response to it, and calls the  *)
(* calls of the primary model made while handling it.                      *)
(***************************************************************************)
EXTENDS Integers, Sequences, FiniteSets, TLC

VARIABLES db, req, resp, calls

vars == <<db, req, resp, calls>>

(***************************************************************************)
(* Python numbers, None and exceptions                                     *)
(***************************************************************************)
None == [none |-> TRUE]

Num(n, d) == [n |-> n, d |-> d]

Whole(i) == Num(i, 1)

Raise(e) == [exc |-> e]

Return(v) == [ret |-> v]

IsNone(v) == v = None

IsExc(v) == DOMAIN v = {"exc"}

Lt(a, b) == a.n * b.d < b.n * a.d

Le(a, b) == a.n * b.d <= b.n * a.d

Eq(a, b) == a.n * b.d = b.n * a.d

RECURSIVE Gcd(_, _)
Gcd(a, b) == IF b = 0 THEN a ELSE Gcd(b, a % b)

\* n/d (d > 0) in lowest terms
Reduce(n, d, g) == Num(n \div g, d \div g)

Frac(n, d) == Reduce(n, d, Gcd(IF n < 0 THEN -n ELSE n, d))

Add(a, b) == Frac(a.n * b.d + b.n * a.d, a.d * b.d)

Sub(a, b) == Frac(a.n * b.d - b.n * a.d, a.d * b.d)

MulInt(a, k) == Frac(a.n * k, a.d)

\* Python max(a, b) / min(a, b): the first argument wins a tie.
PyMax(a, b) == IF Lt(a, b) THEN b ELSE a

PyMin(a, b) == IF Lt(b, a) THEN b ELSE a

\* The nearest integer to n/d (d > 0), ties to the even one: Python's round().
RoundHalfEven(n, d) ==
  IF 2 * (n % d) < d THEN n \div d
  ELSE IF 2 * (n % d) > d THEN (n \div d) + 1
  ELSE IF (n \div d) % 2 = 0 THEN n \div d ELSE (n \div d) + 1

\* Python round(x): an int.
PyRound(x) == Whole(RoundHalfEven(x.n, x.d))

\* Python round(x, 1): one decimal place, kept as a number of tenths.
PyRound1(x) == Num(RoundHalfEven(10 * x.n, x.d), 10)

\* Python int(x): truncation toward zero; int(None) raises TypeError.
PyInt(x) ==
  IF IsNone(x) THEN Raise("TypeError")
  ELSE Whole(IF x.n >= 0 THEN x.n \div x.d ELSE -((-x.n) \div x.d))

\* Python float(x): float(None) raises TypeError.
PyFloat(x) == IF IsNone(x) THEN Raise("TypeError") ELSE x

\* Python `value or 0`: None and 0 are falsy.
OrZero(value) == IF IsNone(value) THEN Whole(0) ELSE IF value.n = 0 THEN Whole(0) ELSE value

\* Python a / b on numbers: ZeroDivisionError when b is 0.
PyDiv(a, k) ==
  IF k = 0 THEN Raise("ZeroDivisionError")
  ELSE IF k < 0 THEN Frac(-a.n, a.d * (-k))
  ELSE Frac(a.n, a.d * k)

RECURSIVE PySum(_)
PySum(s) == IF s = <<>> THEN Whole(0) ELSE Add(s[1], PySum(Tail(s)))

\* Python s[-k:]: the last k elements (all of s when it is shorter).
\* A window that keeps the whole series (C17 must tell it from LastK).
LastK_Whole(s, k) == s

LastK(s, k) == SubSeq(s, IF Len(s) > k THEN Len(s) - k + 1 ELSE 1, Len(s))

AnyExc(s) == \E i \in 1..Len(s) : IsExc(s[i])

FirstExc(s) == s[CHOOSE i \in 1..Len(s) : IsExc(s[i]) /\ \A j \in 1..(i - 1) : ~IsExc(s[j])]

(***************************************************************************)
(* Program constants                                                       *)
(***************************************************************************)
MinHistory == 14

TrendWindow == 8

MaxTrend == 5

BandWidth == 8

HighThreshold == 85

MediumThreshold == 70

DashboardDays == 7

(***************************************************************************)
(* predictions.py: the admin occupancy normalizer and fallback forecaster  *)
(***************************************************************************)
\* A normalizer without the lower limit 0 (C6 must tell it from ClampTo).
ClampTo_NoFloor(x, total_beds) ==
  IF IsExc(x) THEN x
  ELSE IF total_beds <= 0 THEN x
  ELSE PyMin(x, Whole(total_beds))

\* max(0.0, x) when total_beds <= 0, else max(0.0, min(x, total_beds)); an
\* exception raised while converting the value propagates.
ClampTo(x, total_beds) ==
  IF IsExc(x) THEN x
  ELSE IF total_beds <= 0 THEN PyMax(Whole(0), x)
  ELSE PyMax(Whole(0), PyMin(x, Whole(total_beds)))

predictions_clamp_occupancy(value, total_beds) == ClampTo(PyFloat(OrZero(value)), total_beds)

\* deltas = [recent[i] - recent[i - 1] for i in range(1, len(recent))]
Deltas(recent) == [i \in 1..(Len(recent) - 1) |-> Sub(recent[i + 1], recent[i])]

\* The mean without its guard for an empty list (C9 must tell it from MeanDelta).
MeanDelta_Unguarded(deltas) == PyDiv(PySum(deltas), Len(deltas))

\* (sum(deltas) / len(deltas)) if deltas else 0
MeanDelta(deltas) == IF deltas # <<>> THEN PyDiv(PySum(deltas), Len(deltas)) ELSE Whole(0)

\* max(-5.0, min(5.0, avg_delta))
ClampTrend(avg_delta) ==
  IF IsExc(avg_delta) THEN avg_delta
  ELSE PyMax(Whole(-MaxTrend), PyMin(Whole(MaxTrend), avg_delta))

\* A trend without the limits -5 and 5 (C8 must tell it from TrendDelta).
TrendDelta_Unlimited(recent) == MeanDelta(Deltas(recent))

TrendDelta(recent) == ClampTrend(MeanDelta(Deltas(recent)))

\* A point whose band is not normalized (C7 must tell it from AdminPoint).
AdminPoint_RawBand(day, predicted, total_beds) ==
  [date |-> day,
   predicted_occupancy |-> PyRound1(predicted),
   lower_bound |-> PyRound1(Sub(predicted, Whole(BandWidth))),
   upper_bound |-> PyRound1(Add(predicted, Whole(BandWidth)))]

\* the dict appended for one offset, with its rounding
AdminPoint(day, predicted, total_beds) ==
  [date |-> day,
   predicted_occupancy |-> PyRound1(predicted),
   lower_bound |-> PyRound1(predictions_clamp_occupancy(Sub(predicted, Whole(BandWidth)), total_beds)),
   upper_bound |-> PyRound1(predictions_clamp_occupancy(Add(predicted, Whole(BandWidth)), total_beds))]

\* the loop over range(1, days + 1)
AdminProject(last_day, last_occupancy, avg_delta, total_beds, days) ==
  IF IsExc(avg_delta) THEN avg_delta
  ELSE Return([offset \in 1..days |->
         AdminPoint(last_day + offset,
                    predictions_clamp_occupancy(Add(last_occupancy, MulInt(avg_delta, offset)),
                                                total_beds),
                    total_beds)])

AdminFromNormalized(normalized, last_day, total_beds, days) ==
  IF AnyExc(normalized) THEN FirstExc(normalized)
  ELSE AdminProject(last_day, normalized[Len(normalized)],
                    TrendDelta(LastK(normalized, TrendWindow)), total_beds, days)

build_fallback_predictions(ehr_records, total_beds, days) ==
  IF ehr_records = <<>> THEN Return(<<>>)
  ELSE AdminFromNormalized(
         [i \in 1..Len(ehr_records) |->
            predictions_clamp_occupancy(ehr_records[i].occupied_beds, total_beds)],
         ehr_records[Len(ehr_records)].date, total_beds, days)

\* avg_delta of _build_fallback_predictions, as it stands after line 47
predictions_avg_delta(ehr_records, total_beds) ==
  TrendDelta(LastK([i \in 1..Len(ehr_records) |->
                      predictions_clamp_occupancy(ehr_records[i].occupied_beds, total_beds)],
                   TrendWindow))

(***************************************************************************)
(* public.py: the patient-facing normalizer, utilization, risk tiers and   *)
(* fallback forecaster                                                     *)
(***************************************************************************)
public_clamp_occupancy(occupied_beds, total_beds) == ClampTo(PyInt(OrZero(occupied_beds)), total_beds)

\* round((occupied_beds / total_beds) * 100, 1), as a number of tenths
calculate_utilization(occupied_beds, total_beds) ==
  IF total_beds <= 0 THEN Num(0, 10)
  ELSE PyRound1(MulInt(PyDiv(occupied_beds, total_beds), 100))

risk_from_utilization(utilization) ==
  IF Le(Whole(HighThreshold), utilization) THEN "high"
  ELSE IF Le(Whole(MediumThreshold), utilization) THEN "medium"
  ELSE "low"

\* the loop over range(1, days + 1)
PublicProject(last_day, last_occupancy, avg_delta, total_beds, days) ==
  IF IsExc(avg_delta) THEN avg_delta
  ELSE Return([day_offset \in 1..days |->
         [date |-> last_day + day_offset,
          predicted_occupancy |->
            public_clamp_occupancy(PyRound(Add(last_occupancy, MulInt(avg_delta, day_offset))),
                                   total_beds)]])

PublicFromNormalized(normalized, last_day, total_beds, days) ==
  IF AnyExc(normalized) THEN FirstExc(normalized)
  ELSE PublicProject(last_day, normalized[Len(normalized)],
                     TrendDelta(LastK(normalized, TrendWindow)), total_beds, days)

build_fallback_forecast(ehr_records, total_beds, days) ==
  IF ehr_records = <<>> THEN Return(<<>>)
  ELSE PublicFromNormalized(
         [i \in 1..Len(ehr_records) |->
            public_clamp_occupancy(ehr_records[i].occupied_beds, total_beds)],
         ehr_records[Len(ehr_records)].date, total_beds, days)

\* avg_delta of _build_fallback_forecast, as it stands after line 73
public_avg_delta(ehr_records, total_beds) ==
  TrendDelta(LastK([i \in 1..Len(ehr_records) |->
                      public_clamp_occupancy(ehr_records[i].occupied_beds, total_beds)],
                   TrendWindow))

(***************************************************************************)
(* Storage: hospitals in query order, each with its daily records sorted   *)
(* ascending by date (one record per day).  A location is the sequence of  *)
(* its comma-delimited segments, each the sequence of its words.           *)
(***************************************************************************)
EHRRecord(date, occupied_beds) == [date |-> date, occupied_beds |-> occupied_beds]

Hospital(id, location, total_beds, records) ==
  [id |-> id, location |-> location, total_beds |-> total_beds, records |-> records]

\* A series of pad records of value base followed by the records of tail,
\* dated 1, 2, ... in order.
Series(base, pad, tail) ==
  [i \in 1..(pad + Len(tail)) |->
     EHRRecord(i, IF i <= pad THEN base ELSE tail[i - pad])]

SeqsUpTo(S, k) == UNION {[1..m -> S] : m \in 0..k}

(***************************************************************************)
(* Specification of the pure functions: one hospital whose series and      *)
(* capacity are drawn from bounded sets; the actions apply the normalizers *)
(* and the two fallback forecasters to it.  Requests are stateless (no      *)
(* handler reads an earlier response), so a behaviour is one call.         *)
(***************************************************************************)
MaxPad == 7

MaxTail == 2

MaxDays == 3

MaxHalf == 24

FnOccupied == {None, Whole(0), Whole(4), Whole(9), Whole(30)}

FnTotalBeds == {-1, 0, 10}

FnValues == {None} \cup {Num(k, 2) : k \in (-MaxHalf)..MaxHalf}

FnInit ==
  /\ \E total_beds \in FnTotalBeds, base \in FnOccupied, pad \in 0..MaxPad,
        tail \in SeqsUpTo(FnOccupied, MaxTail) :
       db = <<Hospital(1, <<<<"Mumbai">>, <<"Maharashtra">>>>, total_beds,
                       Series(IF pad = 0 THEN None ELSE base, pad, tail))>>
  /\ req = [op |-> "init"]
  /\ resp = [op |-> "init"]
  /\ calls = {}

FnClampOccupancy ==
  /\ resp.op = "init"
  /\ \E value \in FnValues :
       /\ req' = [op |-> "clamp_occupancy", value |-> value, total_beds |-> db[1].total_beds]
       /\ resp' = [op |-> "clamp_occupancy",
                   admin |-> predictions_clamp_occupancy(value, db[1].total_beds),
                   public |-> public_clamp_occupancy(value, db[1].total_beds)]
  /\ UNCHANGED <<db, calls>>

FnFallbackPredictions ==
  /\ resp.op = "init"
  /\ \E days \in 1..MaxDays :
       /\ req' = [op |-> "build_fallback_predictions", days |-> days]
       /\ resp' = [op |-> "build_fallback_predictions",
                   out |-> build_fallback_predictions(db[1].records, db[1].total_beds, days)]
  /\ UNCHANGED <<db, calls>>

FnFallbackForecast ==
  /\ resp.op = "init"
  /\ \E days \in 1..MaxDays :
       /\ req' = [op |-> "build_fallback_forecast", days |-> days]
       /\ resp' = [op |-> "build_fallback_forecast",
                   out |-> build_fallback_forecast(db[1].records, db[1].total_beds, days)]
  /\ UNCHANGED <<db, calls>>

\* The trend both forecasters compute before projecting; they return before
\* computing it when the series is empty.
FnAvgDelta ==
  /\ resp.op = "init"
  /\ db[1].records # <<>>
  /\ req' = [op |-> "avg_delta"]
  /\ resp' = [op |-> "avg_delta",
              admin |-> predictions_avg_delta(db[1].records, db[1].total_beds),
              public |-> public_avg_delta(db[1].records, db[1].total_beds)]
  /\ UNCHANGED <<db, calls>>

FnNext == FnClampOccupancy \/ FnFallbackPredictions \/ FnFallbackForecast \/ FnAvgDelta

SpecFn == FnInit /\ [][FnNext]_vars

(***************************************************************************)
(* app/services/prediction_service (not part of the routers): the primary  *)
(* forecasting model and the admin alert generator, as the design          *)
(* describes them.  The primary model is a black box: a call either raises *)
(* or returns a list of points (possibly empty) with arbitrary values, in  *)
(* or out of [0, total_beds] (it is not given total_beds).                 *)
(***************************************************************************)
PrimaryValues == {Whole(-5), Num(33, 2), Whole(150)}

PrimaryPoint(day, x) ==
  [date |-> day, predicted_occupancy |-> x, lower_bound |-> x, upper_bound |-> x]

\* the values of a returned series on its odd and on its even days
PrimaryShapes == {<<v, v>> : v \in PrimaryValues} \cup {<<Whole(-5), Whole(150)>>}

PrimaryPoints(last_day, days) ==
  {<<>>} \cup
  {[o \in 1..days |-> PrimaryPoint(last_day + o, IF o % 2 = 1 THEN sh[1] ELSE sh[2])] :
     sh \in PrimaryShapes}

\* With fewer than MinHistory records the model cannot be fitted ("Prophet
\* can't train (for example <14 records)") and a call can only raise.
PrimaryOutcomes(ehr_records, days) ==
  {Raise("Exception")} \cup
  IF Len(ehr_records) < MinHistory THEN {}
  ELSE {Return([predictions |-> pts,
                model_info |-> [model |-> "prophet", history_points |-> Len(ehr_records)]]) :
          pts \in PrimaryPoints(ehr_records[Len(ehr_records)].date, days)}

\* generate_alerts: one alert per forecast day whose utilization
\* predicted_occupancy / total_beds * 100 is at least 70; the admin surface
\* labels the tiers red (>= 85) and yellow (>= 70).
AdminAlert(day, utilization) ==
  IF Le(Whole(HighThreshold), utilization)
    THEN <<[type |-> "critical", severity |-> "red", date |-> day]>>
  ELSE IF Le(Whole(MediumThreshold), utilization)
    THEN <<[type |-> "warning", severity |-> "yellow", date |-> day]>>
  ELSE <<>>

AlertFor(pred, total_beds) ==
  AdminAlert(pred.date,
             IF total_beds <= 0 THEN Whole(0)
             ELSE MulInt(PyDiv(pred.predicted_occupancy, total_beds), 100))

RECURSIVE generate_alerts(_, _)
generate_alerts(predictions, total_beds) ==
  IF predictions = <<>> THEN <<>>
  ELSE AlertFor(predictions[1], total_beds) \o generate_alerts(Tail(predictions), total_beds)

(***************************************************************************)
(* Storage queries                                                         *)
(***************************************************************************)
HospitalIds == {db[i].id : i \in 1..Len(db)}

\* db.query(Hospital).filter(Hospital.id == hospital_id).first()
HospitalById(hospital_id) == db[CHOOSE i \in 1..Len(db) : db[i].id = hospital_id]

\* ...order_by(desc(EHRRecord.date)).first(): None when there is no record
LatestRecord(hospital) ==
  IF hospital.records = <<>> THEN None ELSE hospital.records[Len(hospital.records)]

HttpError(op, code, detail) == [op |-> op, status |-> code, detail |-> detail]

Done(r, called) == [resp |-> r, calls |-> called]

\* A call of prediction_service.predict_occupancy made while handling the
\* request: for which hospital, with how many records, and whether it raised.
Call(hospital, primary) ==
  [hospital_id |-> hospital.id, history_points |-> Len(hospital.records),
   raised |-> IsExc(primary)]

(***************************************************************************)
(* predictions.py: GET /api/predict/{hospital_id}                          *)
(***************************************************************************)
\* the else branch: the fallback predictions with their model_info
FallbackTagged(fb, history_points) ==
  IF IsExc(fb) THEN fb
  ELSE Return([predictions |-> fb.ret,
               model_info |-> [model |-> "fallback_trend", history_points |-> history_points]])

\* the response built in the try block, or the except branch's 500
PredictionResponse(hospital, days, got, called) ==
  IF IsExc(got) THEN Done(HttpError("predict", 500, "Prediction failed"), called)
  ELSE Done([op |-> "predict", status |-> 200,
             hospital_id |-> hospital.id,
             total_beds |-> hospital.total_beds,
             days |-> days,
             predictions |-> got.ret.predictions,
             model_info |-> got.ret.model_info], called)

\* A handler that already calls the primary model from 13 records on (C2
\* must tell it from PredictFor).
PredictFor_From13(hospital, days, primary) ==
  IF Len(hospital.records) = 0
    THEN Done(HttpError("predict", 404, "No EHR records found"), {})
  ELSE IF Len(hospital.records) >= MinHistory - 1
    THEN PredictionResponse(hospital, days, primary, {Call(hospital, primary)})
  ELSE PredictionResponse(hospital, days,
         FallbackTagged(build_fallback_predictions(hospital.records, hospital.total_beds, days),
                        Len(hospital.records)),
         {})

PredictFor(hospital, days, primary) ==
  IF Len(hospital.records) = 0
    THEN Done(HttpError("predict", 404, "No EHR records found"), {})
  ELSE IF Len(hospital.records) >= MinHistory
    THEN PredictionResponse(hospital, days, primary, {Call(hospital, primary)})
  ELSE PredictionResponse(hospital, days,
         FallbackTagged(build_fallback_predictions(hospital.records, hospital.total_beds, days),
                        Len(hospital.records)),
         {})

predict_occupancy(hospital_id, days, primary) ==
  IF hospital_id \notin HospitalIds THEN Done(HttpError("predict", 404, "Hospital not found"), {})
  ELSE PredictFor(HospitalById(hospital_id), days, primary)

(***************************************************************************)
(* predictions.py: GET /api/dashboard/{hospital_id}                        *)
(***************************************************************************)
\* (occupied_beds / total_beds) * 100 on raw storage values: TypeError on a
\* null occupied_beds, ZeroDivisionError on total_beds = 0
RawUtilization(occupied_beds, total_beds) ==
  IF IsNone(occupied_beds) THEN Raise("TypeError")
  ELSE IF total_beds = 0 THEN Raise("ZeroDivisionError")
  ELSE MulInt(PyDiv(occupied_beds, total_beds), 100)

\* An overall status that classifies the utilization rounded to one decimal
\* (C15 must tell it from OverallStatus).
OverallStatus_Rounded(alerts, current_utilization) ==
  IF alerts # <<>>
    THEN IF \E i \in 1..Len(alerts) : alerts[i].severity = "red" THEN "red"
         ELSE IF \E i \in 1..Len(alerts) : alerts[i].severity = "yellow" THEN "yellow"
         ELSE "green"
  ELSE IF Le(Whole(HighThreshold), PyRound1(current_utilization)) THEN "red"
  ELSE IF Le(Whole(MediumThreshold), PyRound1(current_utilization)) THEN "yellow"
  ELSE "green"

\* overall status from the alerts, else from the current utilization
OverallStatus(alerts, current_utilization) ==
  IF alerts # <<>>
    THEN IF \E i \in 1..Len(alerts) : alerts[i].severity = "red" THEN "red"
         ELSE IF \E i \in 1..Len(alerts) : alerts[i].severity = "yellow" THEN "yellow"
         ELSE "green"
  ELSE IF Le(Whole(HighThreshold), current_utilization) THEN "red"
  ELSE IF Le(Whole(MediumThreshold), current_utilization) THEN "yellow"
  ELSE "green"

DashboardResponse(hospital, current_utilization, historical_data, pred_data, alerts, called) ==
  Done([op |-> "dashboard", status |-> 200,
        hospital_id |-> hospital.id,
        total_beds |-> hospital.total_beds,
        current_occupied |-> LatestRecord(hospital).occupied_beds,
        current_utilization |-> PyRound1(current_utilization),
        historical_data |-> historical_data,
        predictions |-> pred_data,
        alerts |-> alerts,
        overall_status |-> OverallStatus(alerts, current_utilization)], called)

\* after the try/except: pred_data is what the try block or, when it raised,
\* the except branch's fallback produced
DashboardWith(hospital, current_utilization, historical_data, pred_data, called) ==
  IF IsExc(pred_data) THEN Done(HttpError("dashboard", 500, pred_data.exc), called)
  ELSE DashboardResponse(hospital, current_utilization, historical_data, pred_data.ret,
                         generate_alerts(pred_data.ret, hospital.total_beds), called)

\* except Exception: the fallback predictor replaces the failed forecast
OrFallbackPredictions(first, hospital) ==
  IF IsExc(first)
    THEN build_fallback_predictions(hospital.records, hospital.total_beds, DashboardDays)
  ELSE first

\* the try block's pred_data
DashboardForecast(hospital, primary) ==
  IF Len(hospital.records) >= MinHistory
    THEN IF IsExc(primary) THEN primary ELSE Return(primary.ret.predictions)
  ELSE build_fallback_predictions(hospital.records, hospital.total_beds, DashboardDays)

DashboardFor(hospital, current_utilization, historical_data, primary) ==
  IF IsExc(current_utilization)
    THEN Done(HttpError("dashboard", 500, current_utilization.exc), {})
  ELSE IF AnyExc(historical_data)
    THEN Done(HttpError("dashboard", 500, FirstExc(historical_data).exc), {})
  ELSE DashboardWith(hospital, current_utilization, historical_data,
                     OrFallbackPredictions(DashboardForecast(hospital, primary), hospital),
                     IF Len(hospital.records) >= MinHistory
                       THEN {Call(hospital, primary)} ELSE {})

\* the utilization of each record dated within the last 30 days
HistoricalData(historical_records, total_beds) ==
  [i \in 1..Len(historical_records) |->
     RawUtilization(historical_records[i].occupied_beds, total_beds)]

DashboardOf(hospital, today, primary) ==
  IF IsNone(LatestRecord(hospital))
    THEN Done(HttpError("dashboard", 404, "No EHR records found"), {})
  ELSE DashboardFor(hospital,
                    RawUtilization(LatestRecord(hospital).occupied_beds, hospital.total_beds),
                    HistoricalData(SelectSeq(hospital.records, LAMBDA r : r.date >= today - 30),
                                   hospital.total_beds),
                    primary)

get_dashboard(hospital_id, today, primary) ==
  IF hospital_id \notin HospitalIds THEN Done(HttpError("dashboard", 404, "Hospital not found"), {})
  ELSE DashboardOf(HospitalById(hospital_id), today, primary)

(***************************************************************************)
(* public.py: GET /public/availability/{hospital_id}                       *)
(***************************************************************************)
AvailabilityStatus(utilization) ==
  IF Le(Whole(HighThreshold), utilization) THEN "high"
  ELSE IF Le(Whole(MediumThreshold), utilization) THEN "moderate"
  ELSE "available"

\* the response; its field "status" is called availability here (status is
\* the HTTP status of a response)
AvailabilityResponse(hospital, current_occupied, utilization) ==
  IF IsExc(current_occupied) THEN Done(HttpError("availability", 500, current_occupied.exc), {})
  ELSE Done([op |-> "availability", status |-> 200,
             hospital_id |-> hospital.id,
             total_beds |-> hospital.total_beds,
             current_occupied |-> current_occupied,
             current_available |-> PyMax(Whole(0), Sub(Whole(hospital.total_beds), current_occupied)),
             utilization_percentage |-> utilization,
             availability |-> AvailabilityStatus(utilization)], {})

AvailabilityWith(hospital, current_occupied) ==
  AvailabilityResponse(hospital, current_occupied,
                       calculate_utilization(current_occupied, hospital.total_beds))

AvailabilityOf(hospital) ==
  IF IsNone(LatestRecord(hospital))
    THEN Done([op |-> "availability", status |-> 200,
               hospital_id |-> hospital.id,
               total_beds |-> hospital.total_beds,
               current_occupied |-> Whole(0),
               current_available |-> Whole(hospital.total_beds),
               utilization_percentage |-> Num(0, 10),
               availability |-> "unknown"], {})
  ELSE AvailabilityWith(hospital,
         public_clamp_occupancy(LatestRecord(hospital).occupied_beds, hospital.total_beds))

get_hospital_availability(hospital_id) ==
  IF hospital_id \notin HospitalIds
    THEN Done(HttpError("availability", 404, "Hospital not found"), {})
  ELSE AvailabilityOf(HospitalById(hospital_id))

(***************************************************************************)
(* public.py: GET /public/forecast/{hospital_id}                           *)
(***************************************************************************)
DayForecast(day, predicted_occ, utilization, total_beds) ==
  [date |-> day,
   predicted_occupancy |-> predicted_occ,
   predicted_available |-> PyMax(Whole(0), Sub(Whole(total_beds), predicted_occ)),
   utilization_percentage |-> utilization,
   risk_level |-> risk_from_utilization(utilization)]

ForecastDayOf(day, predicted_occ, total_beds) ==
  DayForecast(day, predicted_occ, calculate_utilization(predicted_occ, total_beds), total_beds)

ForecastDay(pred, total_beds) ==
  ForecastDayOf(pred.date, public_clamp_occupancy(pred.predicted_occupancy, total_beds),
                total_beds)

\* the first day with the least predicted occupancy (0 when there is none)
BestDayIndex(forecast_days) ==
  IF forecast_days = <<>> THEN 0
  ELSE CHOOSE i \in 1..Len(forecast_days) :
         /\ \A j \in 1..Len(forecast_days) :
              Le(forecast_days[i].predicted_occupancy, forecast_days[j].predicted_occupancy)
         /\ \A j \in 1..(i - 1) :
              Lt(forecast_days[i].predicted_occupancy, forecast_days[j].predicted_occupancy)

Formatted(forecast_days, best) ==
  [forecast |-> forecast_days,
   best_day_to_visit |-> IF best = 0 THEN None ELSE Whole(forecast_days[best].date),
   best_day_occupancy |-> IF best = 0 THEN None ELSE forecast_days[best].predicted_occupancy]

FormattedDays(forecast_days) == Formatted(forecast_days, BestDayIndex(forecast_days))

format_forecast_response(predictions, total_beds) ==
  FormattedDays([i \in 1..Len(predictions) |-> ForecastDay(predictions[i], total_beds)])

\* Prophet when possible (from MinHistory records on), otherwise the
\* fallback; also the fallback when the primary call raises.
PublicForecast(hospital, days, primary) ==
  IF Len(hospital.records) >= MinHistory
    THEN IF IsExc(primary)
           THEN build_fallback_forecast(hospital.records, hospital.total_beds, days)
         ELSE Return(primary.ret.predictions)
  ELSE build_fallback_forecast(hospital.records, hospital.total_beds, days)

ForecastBody(hospital, days, formatted, called) ==
  Done([op |-> "forecast", status |-> 200,
        hospital_id |-> hospital.id,
        total_beds |-> hospital.total_beds,
        days |-> days,
        forecast |-> formatted.forecast,
        best_day_to_visit |-> formatted.best_day_to_visit,
        best_day_occupancy |-> formatted.best_day_occupancy], called)

ForecastResponse(hospital, days, predictions, called) ==
  IF IsExc(predictions) THEN Done(HttpError("forecast", 500, predictions.exc), called)
  ELSE ForecastBody(hospital, days,
                    format_forecast_response(predictions.ret, hospital.total_beds), called)

ForecastOf(hospital, days, primary) ==
  IF Len(hospital.records) = 0
    THEN ForecastBody(hospital, days,
                      [forecast |-> <<>>, best_day_to_visit |-> None, best_day_occupancy |-> None],
                      {})
  ELSE ForecastResponse(hospital, days, PublicForecast(hospital, days, primary),
                        IF Len(hospital.records) >= MinHistory
                          THEN {Call(hospital, primary)} ELSE {})

get_hospital_forecast(hospital_id, days, primary) ==
  IF hospital_id \notin HospitalIds
    THEN Done(HttpError("forecast", 404, "Hospital not found"), {})
  ELSE ForecastOf(HospitalById(hospital_id), days, primary)

(***************************************************************************)
(* public.py: GET /public/compare                                          *)
(***************************************************************************)
\* a city name, as the sequence of its words
City(name) == [name |-> name]

\* whether the words occur in the segment, side by side and in this order
Contains(segment, words) ==
  \E k \in 0..(Len(segment) - Len(words)) : SubSeq(segment, k + 1, k + Len(words)) = words

\* Hospital.location.ilike(f"%{city}%"): the city's name occurs somewhere in
\* the location (a name without comma occurs within one segment; letter case
\* is ignored, so words are kept in one case); no filter (None) matches
\* every hospital.
Matches(location, city) ==
  IsNone(city) \/ \E k \in 1..Len(location) : Contains(location[k], city.name)

PredictedValues(predictions) == [i \in 1..Len(predictions) |-> predictions[i].predicted_occupancy]

\* sum(p['predicted_occupancy'] for p in predictions) / len(predictions)
MeanPredicted(predictions) == PyDiv(PySum(PredictedValues(predictions)), Len(predictions))

\* avg_predicted of a fallback branch: the mean when the fallback list is
\* not empty, else the default current_occ
AverageOr(fallback, current_occ) ==
  IF IsExc(fallback) THEN fallback
  ELSE IF fallback.ret # <<>> THEN MeanPredicted(fallback.ret)
  ELSE current_occ

FallbackAverage(hospital, current_occ) ==
  AverageOr(build_fallback_forecast(hospital.records, hospital.total_beds, DashboardDays),
            current_occ)

\* the try block of the primary branch: the mean of the primary's points
PrimaryAverage(primary) ==
  IF IsExc(primary) THEN primary ELSE MeanPredicted(primary.ret.predictions)

\* except Exception: the fallback's mean replaces the failed primary
OrFallbackAverage(tried, hospital, current_occ) ==
  IF IsExc(tried) THEN FallbackAverage(hospital, current_occ) ELSE tried

AvgPredicted(hospital, primary, current_occ) ==
  IF Len(hospital.records) >= MinHistory
    THEN OrFallbackAverage(PrimaryAverage(primary), hospital, current_occ)
  ELSE FallbackAverage(hospital, current_occ)

ComparisonEntry(hospital, current_occ, utilization, avg_predicted, recommendation_score) ==
  Return([hospital_id |-> hospital.id,
          total_beds |-> hospital.total_beds,
          current_occupancy |-> current_occ,
          current_available |-> PyMax(Whole(0), Sub(Whole(hospital.total_beds), current_occ)),
          utilization_percentage |-> utilization,
          avg_predicted_occupancy_7_days |-> PyRound1(avg_predicted),
          recommendation_score |-> PyRound1(recommendation_score),
          risk_level |-> IF Le(Whole(HighThreshold), utilization) THEN "high"
                         ELSE IF Le(Whole(MediumThreshold), utilization) THEN "medium"
                         ELSE "low"])

\* recommendation_score = availability_score + future_availability_score
Scored(hospital, current_occ, avg_predicted, availability_score, future_availability_score) ==
  IF IsExc(availability_score) THEN availability_score
  ELSE IF IsExc(future_availability_score) THEN future_availability_score
  ELSE ComparisonEntry(hospital, current_occ,
                       calculate_utilization(current_occ, hospital.total_beds), avg_predicted,
                       Add(MulInt(availability_score, 50), MulInt(future_availability_score, 50)))

\* ((total_beds - x) / total_beds)
ShareFree(total_beds, x) == PyDiv(Sub(Whole(total_beds), x), total_beds)

ComparisonWith(hospital, current_occ, avg_predicted) ==
  IF IsExc(avg_predicted) THEN avg_predicted
  ELSE Scored(hospital, current_occ, avg_predicted,
              ShareFree(hospital.total_beds, current_occ),
              ShareFree(hospital.total_beds, avg_predicted))

ComparisonFrom(hospital, primary, current_occ) ==
  IF IsExc(current_occ) THEN current_occ
  ELSE ComparisonWith(hospital, current_occ, AvgPredicted(hospital, primary, current_occ))

\* A loop body that scores a hospital without record as unoccupied instead
\* of skipping it (C16 must tell it from ComparisonOf).
ComparisonOf_NoSkip(hospital, primary) ==
  ComparisonFrom(hospital, primary,
    IF IsNone(LatestRecord(hospital)) THEN Whole(0)
    ELSE public_clamp_occupancy(LatestRecord(hospital).occupied_beds, hospital.total_beds))

\* One pass of the loop body: None when the hospital is skipped (no record),
\* a raised exception, or the entry appended.
ComparisonOf(hospital, primary) ==
  IF IsNone(LatestRecord(hospital)) THEN None
  ELSE ComparisonFrom(hospital, primary,
         public_clamp_occupancy(LatestRecord(hospital).occupied_beds, hospital.total_beds))

\* An insertion that places an entry before its ties: a descending sort that
\* is not stable (C5 must tell it from InsertByScore).
RECURSIVE InsertByScore_TiesFirst(_, _)
InsertByScore_TiesFirst(sorted, entry) ==
  IF sorted = <<>> THEN <<entry>>
  ELSE IF Le(sorted[1].recommendation_score, entry.recommendation_score)
    THEN <<entry>> \o sorted
  ELSE <<sorted[1]>> \o InsertByScore_TiesFirst(Tail(sorted), entry)

\* comparisons.sort(key=lambda x: x.recommendation_score, reverse=True):
\* Python's sort is stable, also with reverse=True.
RECURSIVE InsertByScore(_, _)
InsertByScore(sorted, entry) ==
  IF sorted = <<>> THEN <<entry>>
  ELSE IF Lt(sorted[1].recommendation_score, entry.recommendation_score)
    THEN <<entry>> \o sorted
  ELSE <<sorted[1]>> \o InsertByScore(Tail(sorted), entry)

RECURSIVE SortByScore(_)
SortByScore(comparisons) ==
  IF comparisons = <<>> THEN <<>>
  ELSE InsertByScore(SortByScore(SubSeq(comparisons, 1, Len(comparisons) - 1)),
                     comparisons[Len(comparisons)])

\* Index of the first loop pass that raises (0 when none does).
FirstRaising(results) ==
  IF AnyExc(results)
    THEN CHOOSE i \in 1..Len(results) : IsExc(results[i]) /\ \A j \in 1..(i - 1) : ~IsExc(results[j])
  ELSE 0

Appended(results) == [i \in 1..Len(results) |-> results[i].ret]

\* the primary calls made in loop passes 1..passes
CallsIn(hospitals, primaries, passes) ==
  {Call(hospitals[i], primaries[hospitals[i].id]) :
     i \in {j \in 1..passes : Len(hospitals[j].records) >= MinHistory}}

CompareResponse(city, hospitals, primaries, results, stop) ==
  IF stop # 0
    THEN Done(HttpError("compare", 500, results[stop].exc), CallsIn(hospitals, primaries, stop))
  ELSE Done([op |-> "compare", status |-> 200,
             city |-> city,
             queried |-> [i \in 1..Len(hospitals) |-> hospitals[i].id],
             comparisons |-> SortByScore(Appended(SelectSeq(results, LAMBDA r : ~IsNone(r))))],
            CallsIn(hospitals, primaries, Len(hospitals)))

CompareResults(city, hospitals, primaries, results) ==
  CompareResponse(city, hospitals, primaries, results, FirstRaising(results))

CompareOver(city, hospitals, primaries) ==
  IF hospitals = <<>> THEN Done(HttpError("compare", 404, "No hospitals found"), {})
  ELSE CompareResults(city, hospitals, primaries,
         [i \in 1..Len(hospitals) |-> ComparisonOf(hospitals[i], primaries[hospitals[i].id])])

compare_hospitals(city, primaries) ==
  CompareOver(city, SelectSeq(db, LAMBDA h : Matches(h.location, city)), primaries)

(***************************************************************************)
(* public.py: GET /public/recommendation/{city}                            *)
(***************************************************************************)
\* the reason given for the best hospital, by its risk level
ReasonFor(best) ==
  IF best.risk_level = "low" THEN "good availability"
  ELSE IF best.risk_level = "medium" THEN "moderately busy"
  ELSE "best option despite high occupancy"

\* what follows the call of compare_hospitals: an exception it raised
\* propagates, an empty list is answered with 404
RecommendationFrom(city, compared) ==
  IF compared.resp.status # 200
    THEN Done(HttpError("recommendation", compared.resp.status, compared.resp.detail),
              compared.calls)
  ELSE IF compared.resp.comparisons = <<>>
    THEN Done(HttpError("recommendation", 404, "No hospitals found in city"), compared.calls)
  ELSE Done([op |-> "recommendation", status |-> 200,
             city |-> city,
             recommended_hospitals |-> compared.resp.comparisons,
             best_hospital_id |-> compared.resp.comparisons[1].hospital_id,
             reason |-> ReasonFor(compared.resp.comparisons[1])], compared.calls)

get_city_recommendation(city, primaries) ==
  RecommendationFrom(city, compare_hospitals(city, primaries))

(***************************************************************************)
(* public.py: GET /public/alerts/{hospital_id}                             *)
(***************************************************************************)
PublicAlert(day, utilization) ==
  IF Le(Whole(HighThreshold), utilization)
    THEN <<[alert_type |-> "high_occupancy", severity |-> "critical", date |-> day]>>
  ELSE IF Le(Whole(MediumThreshold), utilization)
    THEN <<[alert_type |-> "capacity_warning", severity |-> "warning", date |-> day]>>
  ELSE <<>>

AlertOf(pred, total_beds) ==
  PublicAlert(pred.date,
              calculate_utilization(public_clamp_occupancy(pred.predicted_occupancy, total_beds),
                                    total_beds))

RECURSIVE AlertsOf(_, _)
AlertsOf(predictions, total_beds) ==
  IF predictions = <<>> THEN <<>>
  ELSE AlertOf(predictions[1], total_beds) \o AlertsOf(Tail(predictions), total_beds)

\* whether an alternate candidate is recommended: it has a latest record and
\* its current utilization is below 70
IsAlternate(alt_hospital) ==
  /\ ~IsNone(LatestRecord(alt_hospital))
  /\ Lt(calculate_utilization(
          public_clamp_occupancy(LatestRecord(alt_hospital).occupied_beds,
                                 alt_hospital.total_beds),
          alt_hospital.total_beds),
        Whole(MediumThreshold))

MaxCandidates == 5

MaxAlternates == 3

\* the loop over other_hospitals[:5], with its break at three alternates
RECURSIVE CollectAlternates(_, _)
CollectAlternates(candidates, found) ==
  IF candidates = <<>> \/ Len(found) >= MaxAlternates THEN found
  ELSE CollectAlternates(Tail(candidates),
                         IF IsAlternate(candidates[1]) THEN Append(found, candidates[1].id)
                         ELSE found)

\* All other hospitals as candidates, however many (C11 must tell it from
\* FirstCandidates).
FirstCandidates_All(other_hospitals) == other_hospitals

\* other_hospitals[:5]
FirstCandidates(other_hospitals) ==
  SubSeq(other_hospitals, 1,
         IF Len(other_hospitals) > MaxCandidates THEN MaxCandidates ELSE Len(other_hospitals))

\* hospitals whose location matches the first segment of this one's, itself excluded
OtherHospitals(hospital) ==
  SelectSeq(db, LAMBDA h : Matches(h.location, City(hospital.location[1])) /\ h.id # hospital.id)

AlertsBody(hospital, predictions, alerts, search, called) ==
  Done([op |-> "alerts", status |-> 200,
        hospital_id |-> hospital.id,
        total_beds |-> hospital.total_beds,
        predictions |-> predictions,
        alerts |-> alerts,
        alternate_search |-> search,
        alternate_hospitals |->
          IF search THEN CollectAlternates(FirstCandidates(OtherHospitals(hospital)), <<>>)
          ELSE <<>>], called)

\* if has_high_risk or len(alerts) >= 3
AlertsWith(hospital, predictions, alerts, called) ==
  AlertsBody(hospital, predictions, alerts,
             (\E i \in 1..Len(alerts) : alerts[i].severity = "critical") \/ Len(alerts) >= 3,
             called)

AlertsResponse(hospital, predictions, called) ==
  IF IsExc(predictions) THEN Done(HttpError("alerts", 500, predictions.exc), called)
  ELSE AlertsWith(hospital, predictions.ret, AlertsOf(predictions.ret, hospital.total_beds), called)

AlertsFor(hospital, primary) ==
  AlertsResponse(hospital, PublicForecast(hospital, DashboardDays, primary),
                 IF Len(hospital.records) >= MinHistory THEN {Call(hospital, primary)} ELSE {})

get_hospital_alerts(hospital_id, primary) ==
  IF hospital_id \notin HospitalIds
    THEN Done(HttpError("alerts", 404, "Hospital not found"), {})
  ELSE AlertsFor(HospitalById(hospital_id), primary)

(***************************************************************************)
(* The system: a store of hospitals with their EHR records, and one        *)
(* request against it.  A request reads the store and writes nothing, so   *)
(* a behaviour is a store followed by the response to one request.         *)
(***************************************************************************)
MaxHospitals == 3

TotalBeds == {0, 20, 113}

Occupied == {None, Whole(0), Whole(14), Whole(17), Whole(20), Whole(96)}

SeriesShapes ==
  {<<b, b>> : b \in Occupied} \cup
  {<<Whole(14), Whole(17)>>, <<Whole(20), Whole(14)>>, <<None, Whole(17)>>, <<Whole(17), None>>}

HistoryLengths == {1, 13, 14}

Histories ==
  {<<>>} \cup {Series(sh[1], len - 1, <<sh[2]>>) : sh \in SeriesShapes, len \in HistoryLengths}

\* the hospitals of a store of several: without records, empty, at 70%, full,
\* with enough history for the primary model, and without capacity
FewHospitals ==
  {[total_beds |-> 20, records |-> <<>>],
   [total_beds |-> 20, records |-> Series(None, 0, <<Whole(0)>>)],
   [total_beds |-> 20, records |-> Series(None, 0, <<Whole(14)>>)],
   [total_beds |-> 20, records |-> Series(None, 0, <<Whole(20)>>)],
   [total_beds |-> 20, records |-> Series(Whole(17), 13, <<Whole(17)>>)],
   [total_beds |-> 0, records |-> Series(None, 0, <<Whole(14)>>)]}

Location == <<<<"Mumbai">>, <<"Maharashtra">>>>

NaviMumbai == <<<<"Navi", "Mumbai">>, <<"Maharashtra">>>>

Pune == <<<<"Pune">>, <<"Maharashtra">>>>

Cities == {None, City(<<"Mumbai">>), City(<<"Pune">>)}

Located(location, total_beds, records) ==
  [location |-> location, total_beds |-> total_beds, records |-> records]

\* a full hospital and an empty one, both in Mumbai
Busy == Located(Location, 20, Series(None, 0, <<Whole(20)>>))

Quiet == Located(Location, 20, Series(None, 0, <<Whole(0)>>))

\* the other hospitals of a city-wide store: elsewhere, without records, at 70%
CrowdKinds ==
  {Busy, Quiet,
   Located(NaviMumbai, 20, Series(None, 0, <<Whole(0)>>)),
   Located(NaviMumbai, 20, Series(None, 0, <<Whole(20)>>)),
   Located(Pune, 20, Series(None, 0, <<Whole(0)>>)),
   Located(Location, 20, <<>>),
   Located(Location, 20, Series(None, 0, <<Whole(14)>>))}

MaxCrowd == 7

\* a city-wide store: MaxCrowd hospitals, the first ones full and the others
\* empty, but for one of another kind
CrowdStores ==
  {[i \in 1..MaxCrowd |-> IF i = at THEN kind ELSE IF i <= busy THEN Busy ELSE Quiet] :
     busy \in 0..MaxCrowd, at \in 1..MaxCrowd, kind \in CrowdKinds}

\* no hospital, one hospital of any capacity and history, a few, or a city
Stores ==
  {<<>>} \cup
  {<<Located(Location, total_beds, records)>> : total_beds \in TotalBeds, records \in Histories} \cup
  UNION {[1..m -> {Located(Location, h.total_beds, h.records) : h \in FewHospitals}] :
           m \in 2..MaxHospitals} \cup
  CrowdStores

Horizons == {1, 7}

Todays == {14, 60}

Init ==
  /\ \E store \in Stores :
       db = [i \in 1..Len(store) |->
               Hospital(i, store[i].location, store[i].total_beds, store[i].records)]
  /\ req = [op |-> "init"]
  /\ resp = [op |-> "init"]
  /\ calls = {}

\* the hospitals of the store and one id that is not in it
RequestIds == HospitalIds \cup {Len(db) + 1}

Respond(request, done) ==
  /\ req' = request
  /\ resp' = done.resp
  /\ calls' = done.calls
  /\ UNCHANGED db

\* what a call of the primary model for this hospital could do
OutcomesFor(hospital_id, days) ==
  IF hospital_id \in HospitalIds /\ HospitalById(hospital_id).records # <<>>
    THEN PrimaryOutcomes(HospitalById(hospital_id).records, days)
  ELSE {Raise("Exception")}

\* one outcome per hospital 1..k of the store
RECURSIVE OutcomesForAll(_)
OutcomesForAll(k) ==
  IF k = 0 THEN {<<>>}
  ELSE {Append(f, o) : f \in OutcomesForAll(k - 1), o \in OutcomesFor(k, DashboardDays)}

PredictOccupancy ==
  /\ resp.op = "init"
  /\ \E hospital_id \in RequestIds, days \in Horizons :
       \E primary \in OutcomesFor(hospital_id, days) :
         Respond([op |-> "predict", hospital_id |-> hospital_id, days |-> days],
                 predict_occupancy(hospital_id, days, primary))

GetDashboard ==
  /\ resp.op = "init"
  /\ \E hospital_id \in RequestIds, today \in Todays :
       \E primary \in OutcomesFor(hospital_id, DashboardDays) :
         Respond([op |-> "dashboard", hospital_id |-> hospital_id],
                 get_dashboard(hospital_id, today, primary))

GetHospitalAvailability ==
  /\ resp.op = "init"
  /\ \E hospital_id \in RequestIds :
       Respond([op |-> "availability", hospital_id |-> hospital_id],
               get_hospital_availability(hospital_id))

GetHospitalForecast ==
  /\ resp.op = "init"
  /\ \E hospital_id \in RequestIds, days \in Horizons :
       \E primary \in OutcomesFor(hospital_id, days) :
         Respond([op |-> "forecast", hospital_id |-> hospital_id, days |-> days],
                 get_hospital_forecast(hospital_id, days, primary))

CompareHospitals ==
  /\ resp.op = "init"
  /\ \E city \in Cities :
       \E primaries \in OutcomesForAll(Len(db)) :
         Respond([op |-> "compare", city |-> city], compare_hospitals(city, primaries))

\* the city is a part of the path: there is always one
GetCityRecommendation ==
  /\ resp.op = "init"
  /\ \E city \in Cities \ {None} :
       \E primaries \in OutcomesForAll(Len(db)) :
         Respond([op |-> "recommendation", city |-> city],
                 get_city_recommendation(city, primaries))

GetHospitalAlerts ==
  /\ resp.op = "init"
  /\ \E hospital_id \in RequestIds :
       \E primary \in OutcomesFor(hospital_id, DashboardDays) :
         Respond([op |-> "alerts", hospital_id |-> hospital_id],
                 get_hospital_alerts(hospital_id, primary))

Next ==
  \/ PredictOccupancy
  \/ GetDashboard
  \/ GetHospitalAvailability
  \/ GetHospitalForecast
  \/ CompareHospitals
  \/ GetCityRecommendation
  \/ GetHospitalAlerts

Spec == Init /\ [][Next]_vars

(***************************************************************************)
(* Properties.  req is the request made and resp the response to it; calls *)
(* holds the calls of the primary model made while handling it.            *)
(***************************************************************************)
\* the hospital a request names
Requested == HospitalById(req.hospital_id)

\* every hospital has a positive capacity and no null occupancy
SoundStore ==
  \A i \in 1..Len(db) :
    /\ db[i].total_beds > 0
    /\ \A k \in 1..Len(db[i].records) : ~IsNone(db[i].records[k].occupied_beds)

\* C1: whenever a call of the primary model raises for a hospital with at
\* least 14 records, the entry point answers 200 with the fallback's output,
\* tagged as the fallback's where the response carries model metadata; the
\* failure is never answered with an error.  (Stated over stores where no
\* other failure can occur.)
C1_PrimaryFailureRecovered ==
  (SoundStore /\ \E c \in calls : c.raised) =>
    /\ resp.status = 200
    /\ req.op = "predict" => resp.model_info.model = "fallback_trend"

TrueUtilization(occupied, total_beds) == MulInt(PyDiv(occupied, total_beds), 100)

Tier(utilization) ==
  IF Le(Whole(HighThreshold), utilization) THEN "high"
  ELSE IF Le(Whole(MediumThreshold), utilization) THEN "medium"
  ELSE "low"

\* the tier a consumer's label stands for
TierOf(label) ==
  IF label \in {"high", "red", "critical"} THEN "high"
  ELSE IF label \in {"medium", "moderate", "yellow", "warning"} THEN "medium"
  ELSE "low"

\* the alert a forecast day of this true utilization is to raise
ExpectedAlert(day, utilization) ==
  IF Tier(utilization) = "high"
    THEN <<[alert_type |-> "high_occupancy", severity |-> "critical", date |-> day]>>
  ELSE IF Tier(utilization) = "medium"
    THEN <<[alert_type |-> "capacity_warning", severity |-> "warning", date |-> day]>>
  ELSE <<>>

\* one expected alert per forecast day, by the true utilization of the
\* day's normalized predicted occupancy
RECURSIVE ExpectedAlerts(_, _)
ExpectedAlerts(predictions, total_beds) ==
  IF predictions = <<>> THEN <<>>
  ELSE ExpectedAlert(predictions[1].date,
                     TrueUtilization(
                       public_clamp_occupancy(predictions[1].predicted_occupancy, total_beds),
                       total_beds))
       \o ExpectedAlerts(Tail(predictions), total_beds)

\* C3: every consumer of the thresholds (availability status, forecast risk
\* level, comparison risk level, alert severity, dashboard overall status)
\* places the true utilization u = occupied / total_beds * 100 in the same
\* tier: high from 85, medium from 70 to below 85, low below 70; no value
\* below a boundary is placed in the higher tier.
C3_SameTierEverywhere ==
  /\ ( /\ req.op = "availability" /\ resp.status = 200
       /\ resp.total_beds > 0 /\ resp.availability # "unknown" ) =>
       TierOf(resp.availability) = Tier(TrueUtilization(resp.current_occupied, resp.total_beds))
  /\ (req.op = "forecast" /\ resp.status = 200 /\ resp.total_beds > 0) =>
       \A i \in 1..Len(resp.forecast) :
         TierOf(resp.forecast[i].risk_level) =
           Tier(TrueUtilization(resp.forecast[i].predicted_occupancy, resp.total_beds))
  /\ (req.op = "compare" /\ resp.status = 200) =>
       \A i \in 1..Len(resp.comparisons) :
         TierOf(resp.comparisons[i].risk_level) =
           Tier(TrueUtilization(resp.comparisons[i].current_occupancy,
                                resp.comparisons[i].total_beds))
  /\ (req.op = "alerts" /\ resp.status = 200 /\ resp.total_beds > 0) =>
       [i \in 1..Len(resp.alerts) |-> TierOf(resp.alerts[i].severity)] =
         [i \in 1..Len(ExpectedAlerts(resp.predictions, resp.total_beds)) |->
            TierOf(ExpectedAlerts(resp.predictions, resp.total_beds)[i].severity)]
  /\ (req.op = "dashboard" /\ resp.status = 200 /\ resp.alerts = <<>>) =>
       TierOf(resp.overall_status) =
         Tier(TrueUtilization(resp.current_occupied, resp.total_beds))

\* C4: every entry of a comparison has its recommendation_score in
\* [0, 100], whichever forecaster supplied the horizon average; an entry with
\* 0 occupied and 0 predicted scores 100, an entry full now and over the
\* horizon scores 0.
C4_ScoreWithinRange ==
  (req.op = "compare" /\ resp.status = 200) =>
    \A i \in 1..Len(resp.comparisons) :
      LET entry == resp.comparisons[i]
      IN  /\ Le(Whole(0), entry.recommendation_score)
          /\ Le(entry.recommendation_score, Whole(100))
          /\ ( /\ Eq(entry.current_occupancy, Whole(0))
               /\ Eq(entry.avg_predicted_occupancy_7_days, Whole(0)) ) =>
               Eq(entry.recommendation_score, Whole(100))
          /\ ( /\ Eq(entry.current_occupancy, Whole(entry.total_beds))
               /\ Eq(entry.avg_predicted_occupancy_7_days, Whole(entry.total_beds)) ) =>
               Eq(entry.recommendation_score, Whole(0))

\* where a hospital stands in the storage query's result
PositionOf(hospital_id) ==
  CHOOSE k \in 1..Len(resp.queried) : resp.queried[k] = hospital_id

\* C5: the comparison list is ordered by recommendation_score,
\* non-increasing, and entries of equal score keep the relative order in
\* which the storage query returned their hospitals.
C5_StableDescending ==
  (req.op = "compare" /\ resp.status = 200) =>
    \A i, j \in 1..Len(resp.comparisons) :
      i < j =>
        /\ Le(resp.comparisons[j].recommendation_score, resp.comparisons[i].recommendation_score)
        /\ Eq(resp.comparisons[i].recommendation_score,
              resp.comparisons[j].recommendation_score) =>
             PositionOf(resp.comparisons[i].hospital_id) <
               PositionOf(resp.comparisons[j].hospital_id)

\* a comparison that the sort reordered and that holds a tie
C5_ReorderedWithTie ==
  /\ req.op = "compare"
  /\ resp.status = 200
  /\ \E i \in 1..(Len(resp.comparisons) - 1) :
       resp.comparisons[i].hospital_id > resp.comparisons[i + 1].hospital_id
  /\ \E i, j \in 1..Len(resp.comparisons) :
       /\ i < j
       /\ Eq(resp.comparisons[i].recommendation_score, resp.comparisons[j].recommendation_score)

\* a value is in range: not missing, at least 0, and at most total_beds when
\* total_beds is positive
InRange(value, total_beds) ==
  /\ ~IsNone(value)
  /\ ~IsExc(value)
  /\ Le(Whole(0), value)
  /\ total_beds > 0 => Le(value, Whole(total_beds))

\* the value without its fractional part (value >= 0)
Truncated(value) == Whole(value.n \div value.d)

\* C6, as stated: both normalizers return a result in [0, total_beds] when
\* total_beds > 0 and a result >= 0 without upper limit otherwise; a missing
\* value gives 0; an in-range value is returned unchanged.
C6_NormalizerContract ==
  req.op = "clamp_occupancy" =>
    /\ InRange(resp.admin, req.total_beds)
    /\ InRange(resp.public, req.total_beds)
    /\ IsNone(req.value) => Eq(resp.admin, Whole(0)) /\ Eq(resp.public, Whole(0))
    /\ InRange(req.value, req.total_beds) =>
         Eq(resp.admin, req.value) /\ Eq(resp.public, req.value)

\* C6, amended: as above, but an in-range value is returned unchanged by
\* the admin normalizer only; the public normalizer returns it without its
\* fractional part (unchanged when it is a whole number).
C6_NormalizerContractTruncating ==
  req.op = "clamp_occupancy" =>
    /\ InRange(resp.admin, req.total_beds)
    /\ InRange(resp.public, req.total_beds)
    /\ IsNone(req.value) => Eq(resp.admin, Whole(0)) /\ Eq(resp.public, Whole(0))
    /\ InRange(req.value, req.total_beds) =>
         Eq(resp.admin, req.value) /\ Eq(resp.public, Truncated(req.value))

\* an in-range fractional value that the public normalizer changed
C6_FractionTruncated ==
  /\ req.op = "clamp_occupancy"
  /\ req.total_beds > 0
  /\ InRange(req.value, req.total_beds)
  /\ Eq(resp.admin, req.value)
  /\ Lt(resp.public, req.value)

FallbackOps == {"build_fallback_predictions", "build_fallback_forecast"}

Within(x, total_beds) == Le(Whole(0), x) /\ Le(x, Whole(total_beds))

\* C7: every point of a fallback forecast for total_beds > 0 has its
\* predicted_occupancy in [0, total_beds]; the points with bounds have
\* lower_bound <= predicted_occupancy <= upper_bound, both bounds in
\* [0, total_beds], after the rounding of each field.
C7_PointsWithinCapacity ==
  (req.op \in FallbackOps /\ db[1].total_beds > 0 /\ ~IsExc(resp.out)) =>
    \A o \in 1..Len(resp.out.ret) :
      LET point == resp.out.ret[o]
      IN  /\ Within(point.predicted_occupancy, db[1].total_beds)
          /\ req.op = "build_fallback_predictions" =>
               /\ Within(point.lower_bound, db[1].total_beds)
               /\ Within(point.upper_bound, db[1].total_beds)
               /\ Le(point.lower_bound, point.predicted_occupancy)
               /\ Le(point.predicted_occupancy, point.upper_bound)

\* a rounded, fractional prediction whose band is cut at both ends
C7_BandCutAtBothEnds ==
  /\ req.op = "build_fallback_predictions"
  /\ db[1].total_beds > 0
  /\ ~IsExc(resp.out)
  /\ \E o \in 1..Len(resp.out.ret) :
       /\ resp.out.ret[o].predicted_occupancy.n % resp.out.ret[o].predicted_occupancy.d # 0
       /\ Eq(resp.out.ret[o].lower_bound, Whole(0))
       /\ Eq(resp.out.ret[o].upper_bound, Whole(db[1].total_beds))

\* normalize(value, total_beds) of a number, as the design defines it
Normalize(value, total_beds) ==
  IF total_beds <= 0 THEN PyMax(Whole(0), value)
  ELSE PyMax(Whole(0), PyMin(value, Whole(total_beds)))

\* the normalized occupancy of the hospital's k-th record (missing: 0)
NormalizedAt(k) ==
  Normalize(IF IsNone(db[1].records[k].occupied_beds) THEN Whole(0)
            ELSE db[1].records[k].occupied_beds,
            db[1].total_beds)

LastOccupancy == NormalizedAt(Len(db[1].records))

\* first record of the recent window: the last 8 records, or all if fewer
WindowStart ==
  IF Len(db[1].records) > TrendWindow THEN Len(db[1].records) - TrendWindow + 1 ELSE 1

\* trend_delta: the mean of the window's consecutive differences (its last
\* value minus its first, over their number), limited to [-5, 5]; 0 for a
\* window of one value
Trend ==
  IF Len(db[1].records) - WindowStart = 0 THEN Whole(0)
  ELSE PyMax(Whole(-MaxTrend),
             PyMin(Whole(MaxTrend),
                   PyDiv(Sub(LastOccupancy, NormalizedAt(WindowStart)),
                         Len(db[1].records) - WindowStart)))

\* last_occupancy + trend_delta * o
Projected(o) == Add(LastOccupancy, MulInt(Trend, o))

\* C8, as stated: for a series of at least one record the fallback returns
\* exactly horizon_days points; point o is dated last date + o and has
\* predicted = normalize(last_occupancy + trend_delta * o), and where bounds
\* are produced lower = normalize(predicted - 8), upper = normalize(predicted + 8).
C8_ProjectionExact ==
  (req.op \in FallbackOps /\ db[1].records # <<>>) =>
    /\ ~IsExc(resp.out)
    /\ Len(resp.out.ret) = req.days
    /\ \A o \in 1..Len(resp.out.ret) :
         LET point == resp.out.ret[o]
         IN  /\ point.date = db[1].records[Len(db[1].records)].date + o
             /\ Eq(point.predicted_occupancy, Normalize(Projected(o), db[1].total_beds))
             /\ req.op = "build_fallback_predictions" =>
                  /\ Eq(point.lower_bound,
                        Normalize(Sub(point.predicted_occupancy, Whole(BandWidth)),
                                  db[1].total_beds))
                  /\ Eq(point.upper_bound,
                        Normalize(Add(point.predicted_occupancy, Whole(BandWidth)),
                                  db[1].total_beds))

\* C8, amended: the points are emitted rounded.  The admin forecaster gives
\* predicted, lower and upper rounded to one decimal, where predicted is
\* normalize(last_occupancy + trend_delta * o) and the bounds are normalize
\* of that unrounded value -8 and +8; the public forecaster gives
\* normalize of last_occupancy + trend_delta * o rounded to the nearest
\* whole number (halves to even), without bounds.
C8_ProjectionRounded ==
  (req.op \in FallbackOps /\ db[1].records # <<>>) =>
    /\ ~IsExc(resp.out)
    /\ Len(resp.out.ret) = req.days
    /\ \A o \in 1..Len(resp.out.ret) :
         LET point == resp.out.ret[o]
             exact == Normalize(Projected(o), db[1].total_beds)
         IN  /\ point.date = db[1].records[Len(db[1].records)].date + o
             /\ req.op = "build_fallback_forecast" =>
                  Eq(point.predicted_occupancy,
                     Normalize(PyRound(Projected(o)), db[1].total_beds))
             /\ req.op = "build_fallback_predictions" =>
                  /\ Eq(point.predicted_occupancy, PyRound1(exact))
                  /\ Eq(point.lower_bound,
                        PyRound1(Normalize(Sub(exact, Whole(BandWidth)), db[1].total_beds)))
                  /\ Eq(point.upper_bound,
                        PyRound1(Normalize(Add(exact, Whole(BandWidth)), db[1].total_beds)))

\* a point that the rounding changed
C8_RoundingChangedPoint ==
  /\ req.op \in FallbackOps
  /\ db[1].records # <<>>
  /\ ~IsExc(resp.out)
  /\ Len(resp.out.ret) = req.days
  /\ \E o \in 1..Len(resp.out.ret) :
       ~Eq(resp.out.ret[o].predicted_occupancy, Normalize(Projected(o), db[1].total_beds))

\* C9: the fallback forecaster returns the empty list for zero records and
\* never fails for one record or more, whatever the horizon, total_beds
\* (also <= 0) and the records hold (also a missing occupied_beds, also a
\* single record, which has no differences).
C9_FallbackNeverFails ==
  req.op \in FallbackOps =>
    /\ ~IsExc(resp.out)
    /\ db[1].records = <<>> => resp.out.ret = <<>>
    /\ db[1].records # <<>> => Len(resp.out.ret) = req.days

\* a forecast from a single record without occupancy, without capacity
C9_SingleNullRecord ==
  /\ req.op \in FallbackOps
  /\ Len(db[1].records) = 1
  /\ IsNone(db[1].records[1].occupied_beds)
  /\ db[1].total_beds <= 0
  /\ ~IsExc(resp.out)
  /\ Len(resp.out.ret) = req.days

\* C10: the public alerts operation emits, for each forecast day, exactly
\* one alert if the day's utilization predicted_occupancy / total_beds * 100
\* is at least 70 and none below; the alert is high_occupancy / critical
\* exactly from 85, capacity_warning / warning from 70 to below 85; a
\* critical alert makes the search for alternate hospitals run.
C10_AlertPerRiskyDay ==
  (req.op = "alerts" /\ resp.status = 200 /\ resp.total_beds > 0) =>
    /\ resp.alerts = ExpectedAlerts(resp.predictions, resp.total_beds)
    /\ (\E i \in 1..Len(resp.alerts) : resp.alerts[i].severity = "critical") =>
         resp.alternate_search

\* the other hospitals whose location holds the first segment of the
\* requested hospital's location, in storage order
SameCityOthers ==
  SelectSeq(db, LAMBDA h :
    /\ h.id # req.hospital_id
    /\ \E k \in 1..Len(h.location) : Contains(h.location[k], Requested.location[1]))

\* the ids of the first five of them
CandidateIds ==
  {SameCityOthers[k].id : k \in 1..(IF Len(SameCityOthers) > 5 THEN 5 ELSE Len(SameCityOthers))}

\* a hospital with a latest record whose current utilization is below 70 %
\* (a utilization without capacity counts as 0)
HasRoom(hospital) ==
  /\ hospital.records # <<>>
  /\ hospital.total_beds > 0 =>
       Lt(TrueUtilization(
            public_clamp_occupancy(LatestRecord(hospital).occupied_beds, hospital.total_beds),
            hospital.total_beds),
          Whole(MediumThreshold))

\* C11: the alerts operation returns alternate hospitals only when there is
\* a critical alert or at least 3 alerts; at most 3 of them, among the first
\* 5 other hospitals whose location matches the first segment of the
\* hospital's location, never the hospital itself, each with a latest record
\* and a current utilization below 70 %, in the order of discovery.
C11_AlternatesOnlyWhenCrowded ==
  (req.op = "alerts" /\ resp.status = 200) =>
    /\ ( /\ \A i \in 1..Len(resp.alerts) : resp.alerts[i].severity # "critical"
         /\ Len(resp.alerts) < 3 ) => resp.alternate_hospitals = <<>>
    /\ Len(resp.alternate_hospitals) <= 3
    /\ \A k \in 1..Len(resp.alternate_hospitals) :
         /\ resp.alternate_hospitals[k] \in CandidateIds
         /\ resp.alternate_hospitals[k] # req.hospital_id
         /\ HasRoom(HospitalById(resp.alternate_hospitals[k]))
    /\ \A k, l \in 1..Len(resp.alternate_hospitals) :
         k < l => resp.alternate_hospitals[k] < resp.alternate_hospitals[l]

\* a search that found fewer than 3 alternates and left out a hospital with
\* room in the same city, the sixth of the others
C11_SixthCandidateLeftOut ==
  /\ req.op = "alerts"
  /\ resp.status = 200
  /\ resp.alternate_search
  /\ Len(resp.alternate_hospitals) \in 1..2
  /\ \E k \in 6..Len(SameCityOthers) :
       /\ HasRoom(SameCityOthers[k])
       /\ \A l \in 1..Len(resp.alternate_hospitals) :
            resp.alternate_hospitals[l] # SameCityOthers[k].id

\* the hospitals a city filter matches, and those of them with a record
InCity(city) == SelectSeq(db, LAMBDA h : Matches(h.location, city))

InCityWithRecords(city) == SelectSeq(InCity(city), LAMBDA h : h.records # <<>>)

\* C12: the recommendation call fails with not-found (and carries no
\* comparison) when the city filter matches no hospital, and also when it
\* matches hospitals none of which has a record; otherwise it returns the
\* ranked comparison with its first, highest-scoring entry as best hospital.
C12_RecommendationOrNotFound ==
  req.op = "recommendation" =>
    /\ InCityWithRecords(req.city) = <<>> =>
         resp.status = 404 /\ "recommended_hospitals" \notin DOMAIN resp
    /\ InCityWithRecords(req.city) # <<>> =>
         /\ resp.status = 200
         /\ resp.recommended_hospitals # <<>>
         /\ resp.best_hospital_id = resp.recommended_hospitals[1].hospital_id
         /\ \A i \in 1..Len(resp.recommended_hospitals) :
              Le(resp.recommended_hospitals[i].recommendation_score,
                 resp.recommended_hospitals[1].recommendation_score)

\* the matching hospitals whose comparison entry can be computed: they have
\* a record and a capacity to divide by
Comparable(city) == SelectSeq(InCityWithRecords(city), LAMBDA h : h.total_beds # 0)

\* the entries a comparison or recommendation response carries
EntriesOf(response) ==
  IF "comparisons" \in DOMAIN response THEN response.comparisons
  ELSE IF "recommended_hospitals" \in DOMAIN response THEN response.recommended_hospitals
  ELSE <<>>

\* C13: when the entry of one hospital cannot be computed (its total_beds is
\* 0, say), compare and recommendation still answer with the entries of all
\* the other hospitals and only omit that one; one hospital's failure never
\* aborts the whole call.
C13_FailingHospitalOmitted ==
  (req.op \in {"compare", "recommendation"} /\ Comparable(req.city) # <<>>) =>
    /\ resp.status = 200
    /\ \A k \in 1..Len(Comparable(req.city)) :
         \E i \in 1..Len(EntriesOf(resp)) :
           EntriesOf(resp)[i].hospital_id = Comparable(req.city)[k].id

\* the requested hospital exists, has no capacity, and has records, each
\* with an occupancy
RequestedWithoutCapacity ==
  /\ req.hospital_id \in HospitalIds
  /\ Requested.total_beds <= 0
  /\ Requested.records # <<>>
  /\ \A k \in 1..Len(Requested.records) : ~IsNone(Requested.records[k].occupied_beds)

\* C14: for a hospital with total_beds <= 0 every percentage computation
\* (public utilization, comparison scores, the dashboard's current and
\* historical utilization) reports a utilization of 0 and the operation does
\* not fail with a division error.
C14_NoCapacityHandled ==
  /\ (req.op = "availability" /\ RequestedWithoutCapacity) =>
       resp.status = 200 /\ Eq(resp.utilization_percentage, Whole(0))
  /\ (req.op = "forecast" /\ RequestedWithoutCapacity) =>
       /\ resp.status = 200
       /\ \A i \in 1..Len(resp.forecast) : Eq(resp.forecast[i].utilization_percentage, Whole(0))
  /\ (req.op = "dashboard" /\ RequestedWithoutCapacity) =>
       /\ resp.status = 200
       /\ Eq(resp.current_utilization, Whole(0))
       /\ \A i \in 1..Len(resp.historical_data) : Eq(resp.historical_data[i], Whole(0))
  /\ req.op = "compare" =>
       \A k \in 1..Len(InCityWithRecords(req.city)) :
         InCityWithRecords(req.city)[k].total_beds <= 0 =>
           /\ resp.status = 200
           /\ \A i \in 1..Len(resp.comparisons) :
                resp.comparisons[i].hospital_id = InCityWithRecords(req.city)[k].id =>
                  Eq(resp.comparisons[i].utilization_percentage, Whole(0))

RECURSIVE DifferenceSum(_, _)
DifferenceSum(from, to) ==
  IF from >= to THEN Whole(0)
  ELSE Add(Sub(NormalizedAt(from + 1), NormalizedAt(from)), DifferenceSum(from + 1, to))

\* the mean of the window's successive differences, before it is limited
MeanDifference ==
  PyDiv(DifferenceSum(WindowStart, Len(db[1].records)), Len(db[1].records) - WindowStart)

\* C17: for every non-empty series the trend delta of both fallback
\* forecasters is the mean of the successive differences of the last 8 (or
\* fewer) normalized values, limited to [-5, 5]; it is 0 for a window of one
\* value, and it always lies within [-5, 5].
C17_TrendDelta ==
  (req.op = "avg_delta") =>
    \A delta \in {resp.admin, resp.public} :
      /\ ~IsExc(delta)
      /\ Le(Whole(-MaxTrend), delta) /\ Le(delta, Whole(MaxTrend))
      /\ IF Len(db[1].records) = 1 THEN Eq(delta, Whole(0))
         ELSE IF Lt(Whole(MaxTrend), MeanDifference) THEN Eq(delta, Whole(MaxTrend))
         ELSE IF Lt(MeanDifference, Whole(-MaxTrend)) THEN Eq(delta, Whole(-MaxTrend))
         ELSE Eq(delta, MeanDifference)

\* a series whose mean difference exceeds the limit
C17_SteepJumpLimited ==
  /\ req.op = "avg_delta"
  /\ Len(db[1].records) >= 2
  /\ Lt(Whole(MaxTrend), MeanDifference)
  /\ Eq(resp.admin, Whole(MaxTrend))
  /\ Eq(resp.public, Whole(MaxTrend))

====
